---- MODULE Spec2Model ----
(***************************************************************************)
(* Credential authentication core of the rental-management app:            *)
(*   src/src/lib/auth.ts            authorize (CredentialsProvider)         *)
(*   src/src/lib/__tests__/password.test.ts:511-719  (lib/password.ts)      *)
(*                                  hashPassword, verifyPassword,           *)
(*                                  shouldRehashPassword                    *)
(* bcryptjs and the Prisma user store are collaborators outside the        *)
(* repository: their outcomes (value or exception, fresh salt) are chosen  *)
(* nondeterministically by the environment.                                *)
(***************************************************************************)
EXTENDS Integers, Sequences, FiniteSets, TLC

\* ------------------------------------------------------------------ bounds
MaxEmailLen == 1
NumSalts == 2
MaxTailLen == 1
MaxMixLen == 3
MaxGenLen == 3

\* ------------------------------------------------------- program constants
SALT_ROUNDS == 12
MinPasswordLength == 8
MaxPasswordLength == 72
BcryptKeyBytes == 72

\* ------------------------------------------------------------ value model
\* JavaScript values are tagged records so that any two of them compare.
Undefined == [t |-> "undefined"]
Null == [t |-> "null"]
NotAString == [t |-> "number"]
Str(s) == [t |-> "string", v |-> s]
IsString(x) == x.t = "string"
\* JavaScript truthiness of the values above: undefined, null and "" are falsy
IsEmptyString(x) == x.t = "string" /\ "v" \in DOMAIN x /\ Len(x.v) = 0
Truthy(x) == x.t # "undefined" /\ x.t # "null" /\ ~IsEmptyString(x)

Repeat(c, n) == [i \in 1..n |-> c]

\* characters of e-mail addresses and String.prototype.toLowerCase on them
EmailChars == {"a", "A", "b", "B", "c"}
LowerOfChar(c) == CASE c = "A" -> "a" [] c = "B" -> "b" [] OTHER -> c
toLowerCase(s) == [i \in 1..Len(s) |-> LowerOfChar(s[i])]

RECURSIVE SeqsUpTo(_, _)
SeqsUpTo(S, n) ==
  IF n = 0 THEN {<<>>}
  ELSE LET shorter == SeqsUpTo(S, n - 1)
       IN shorter \cup {Append(s, c) : s \in {x \in shorter : Len(x) = n - 1}, c \in S}

\* ------------------------------------------------------- exceptions/results
Ok(v) == [ok |-> TRUE, val |-> v]
\* error messages are sequences of message parts
Throw(m) == [ok |-> FALSE, msg |-> m]

\* ------------------------------------------------------------------ bcrypt
\* A digest encodes algorithm, cost, salt and the hashed plaintext.
Digest(r, s, p) == [t |-> "string", fmt |-> "bcrypt", rounds |-> r, salt |-> s, pw |-> p]
\* a non-empty string that is not a bcrypt digest
Garbage == [t |-> "string", fmt |-> "garbage", v |-> <<"x">>]
IsBcrypt(d) == d.t = "string" /\ "fmt" \in DOMAIN d /\ d.fmt = "bcrypt"
Salts == 1..NumSalts

\* the UTF-8 encoding of a character: the accented letter takes two bytes
Utf8OfChar(c) == IF c = "U+00E9" THEN <<"0xC3", "0xA9">> ELSE <<c>>
RECURSIVE Utf8(_)
Utf8(s) == IF s = <<>> THEN <<>> ELSE Utf8OfChar(Head(s)) \o Utf8(Tail(s))
\* bcrypt keys the cipher with the first 72 bytes of the encoded password
BcryptKey(p) == LET b == Utf8(p) IN SubSeq(b, 1, IF Len(b) < BcryptKeyBytes THEN Len(b) ELSE BcryptKeyBytes)
\* bcrypt.hash(password, rounds): rejects, or resolves to a digest with a fresh salt
bcryptHash(p, r) == {Throw(<<"Bcrypt failed">>)} \cup {Ok(Digest(r, s, BcryptKey(p))) : s \in Salts}
\* bcrypt.compare(password, hash): rejects, or resolves to the match
bcryptCompare(p, d) == {Throw(<<"Bcrypt compare failed">>), Ok(IsBcrypt(d) /\ d.pw = BcryptKey(p))}
\* bcrypt.getRounds(hash): the embedded cost, or throws on a hash it cannot parse
bcryptGetRounds(d) == IF IsBcrypt(d) THEN Ok(d.rounds) ELSE Throw(<<"Invalid hash format">>)

\* ------------------------------------------------------------- lib/password
\* a call of bcrypt, with its outcome, made by a run of a function of this module
Invocation(op, arg, ret) == [op |-> op, arg |-> arg, ret |-> ret]
\* a run of a function: its outcome and the bcrypt calls it made
Run(out, calls) == [out |-> out, calls |-> calls]

\* variant: the upper bound on the length is not checked
hashPasswordRunUnbounded(password) ==
  LET inner ==
        IF ~Truthy(password) \/ ~IsString(password)
          THEN {Run(Throw(<<"Password must be a non-empty string">>), <<>>)}
        ELSE IF Len(password.v) < MinPasswordLength
          THEN {Run(Throw(<<"Password must be at least 8 characters long">>), <<>>)}
        ELSE {Run(o, <<Invocation("hash", <<password, SALT_ROUNDS>>, o)>>) :
                o \in bcryptHash(password.v, SALT_ROUNDS)}
  IN {IF r.out.ok THEN r
      ELSE Run(Throw(<<"Password hashing failed: ">> \o r.out.msg), r.calls) : r \in inner}
\* variant: the upper bound on the length is exclusive
hashPasswordRunExclusive(password) ==
  LET inner ==
        IF ~Truthy(password) \/ ~IsString(password)
          THEN {Run(Throw(<<"Password must be a non-empty string">>), <<>>)}
        ELSE IF Len(password.v) < MinPasswordLength
          THEN {Run(Throw(<<"Password must be at least 8 characters long">>), <<>>)}
        ELSE IF Len(password.v) >= MaxPasswordLength
          THEN {Run(Throw(<<"Password must be 72 characters or less">>), <<>>)}
        ELSE {Run(o, <<Invocation("hash", <<password, SALT_ROUNDS>>, o)>>) :
                o \in bcryptHash(password.v, SALT_ROUNDS)}
  IN {IF r.out.ok THEN r
      ELSE Run(Throw(<<"Password hashing failed: ">> \o r.out.msg), r.calls) : r \in inner}
\* the body of the try: validation, then bcrypt.hash; the catch wraps every error
hashPasswordRun(password) ==
  LET inner ==
        IF ~Truthy(password) \/ ~IsString(password)
          THEN {Run(Throw(<<"Password must be a non-empty string">>), <<>>)}
        ELSE IF Len(password.v) < MinPasswordLength
          THEN {Run(Throw(<<"Password must be at least 8 characters long">>), <<>>)}
        ELSE IF Len(password.v) > MaxPasswordLength
          THEN {Run(Throw(<<"Password must be 72 characters or less">>), <<>>)}
        ELSE {Run(o, <<Invocation("hash", <<password, SALT_ROUNDS>>, o)>>) :
                o \in bcryptHash(password.v, SALT_ROUNDS)}
  IN {IF r.out.ok THEN r
      ELSE Run(Throw(<<"Password hashing failed: ">> \o r.out.msg), r.calls) : r \in inner}

hashPassword(password) == {r.out : r \in hashPasswordRun(password)}

\* variant: the catch re-throws the error it caught
verifyPasswordRunLeaky(password, hashedPassword) ==
  IF ~Truthy(password) \/ ~IsString(password)
    THEN {Run(Throw(<<"Password must be a non-empty string">>), <<>>)}
  ELSE IF ~Truthy(hashedPassword) \/ ~IsString(hashedPassword)
    THEN {Run(Throw(<<"Hashed password must be a non-empty string">>), <<>>)}
  ELSE {Run(o, <<Invocation("compare", <<password, hashedPassword>>, o)>>) :
          o \in bcryptCompare(password.v, hashedPassword)}
\* variant: the plaintext is held to the length bounds of hashPassword
verifyPasswordRunBounded(password, hashedPassword) ==
  LET inner ==
        IF ~Truthy(password) \/ ~IsString(password)
          THEN {Run(Throw(<<"Password must be a non-empty string">>), <<>>)}
        ELSE IF Len(password.v) < MinPasswordLength \/ Len(password.v) > MaxPasswordLength
          THEN {Run(Throw(<<"Password must be 8 to 72 characters long">>), <<>>)}
        ELSE IF ~Truthy(hashedPassword) \/ ~IsString(hashedPassword)
          THEN {Run(Throw(<<"Hashed password must be a non-empty string">>), <<>>)}
        ELSE {Run(o, <<Invocation("compare", <<password, hashedPassword>>, o)>>) :
                o \in bcryptCompare(password.v, hashedPassword)}
  IN {IF r.out.ok THEN r
      ELSE Run(Throw(<<"Password verification failed">>), r.calls) : r \in inner}
\* the body of the try: validation, then bcrypt.compare; the catch replaces every error
verifyPasswordRun(password, hashedPassword) ==
  LET inner ==
        IF ~Truthy(password) \/ ~IsString(password)
          THEN {Run(Throw(<<"Password must be a non-empty string">>), <<>>)}
        ELSE IF ~Truthy(hashedPassword) \/ ~IsString(hashedPassword)
          THEN {Run(Throw(<<"Hashed password must be a non-empty string">>), <<>>)}
        ELSE {Run(o, <<Invocation("compare", <<password, hashedPassword>>, o)>>) :
                o \in bcryptCompare(password.v, hashedPassword)}
  IN {IF r.out.ok THEN r
      ELSE Run(Throw(<<"Password verification failed">>), r.calls) : r \in inner}

verifyPassword(password, hashedPassword) ==
  {r.out : r \in verifyPasswordRun(password, hashedPassword)}

\* the characters of the model that each regular expression matches
UpperCase == {"A"}
LowerCase == {"p", "q"}
Digits == {"1"}
SpecialChars == {"!"}
\* regex.test(s) for a regular expression of one character class
Test(class, s) == \E i \in DOMAIN s : s[i] \in class
\* errors.push(message) when the condition holds
PushIf(errors, cond, message) == IF cond THEN Append(errors, message) ELSE errors

\* variant: the rule on the greatest length is missing
validatePasswordStrengthUnbounded(password) ==
  LET s == password.v
      e1 == PushIf(<<>>, Len(s) < MinPasswordLength, "Password must be at least 8 characters long")
      e3 == PushIf(e1, ~Test(UpperCase, s), "Password must contain at least one uppercase letter")
      e4 == PushIf(e3, ~Test(LowerCase, s), "Password must contain at least one lowercase letter")
      e5 == PushIf(e4, ~Test(Digits, s), "Password must contain at least one number")
      errors == PushIf(e5, ~Test(SpecialChars, s), "Password must contain at least one special character")
  IN Ok([isValid |-> Len(errors) = 0, errors |-> errors])
\* variant: the rules are chained with else, the first violated one reports alone
validatePasswordStrengthElse(password) ==
  LET s == password.v
      errors ==
        IF Len(s) < MinPasswordLength THEN <<"Password must be at least 8 characters long">>
        ELSE IF Len(s) > MaxPasswordLength THEN <<"Password must be 72 characters or less">>
        ELSE IF ~Test(UpperCase, s) THEN <<"Password must contain at least one uppercase letter">>
        ELSE IF ~Test(LowerCase, s) THEN <<"Password must contain at least one lowercase letter">>
        ELSE IF ~Test(Digits, s) THEN <<"Password must contain at least one number">>
        ELSE IF ~Test(SpecialChars, s) THEN <<"Password must contain at least one special character">>
        ELSE <<>>
  IN Ok([isValid |-> Len(errors) = 0, errors |-> errors])
\* six ifs in sequence, each pushing its message
validatePasswordStrength(password) ==
  LET s == password.v
      e1 == PushIf(<<>>, Len(s) < MinPasswordLength, "Password must be at least 8 characters long")
      e2 == PushIf(e1, Len(s) > MaxPasswordLength, "Password must be 72 characters or less")
      e3 == PushIf(e2, ~Test(UpperCase, s), "Password must contain at least one uppercase letter")
      e4 == PushIf(e3, ~Test(LowerCase, s), "Password must contain at least one lowercase letter")
      e5 == PushIf(e4, ~Test(Digits, s), "Password must contain at least one number")
      errors == PushIf(e5, ~Test(SpecialChars, s), "Password must contain at least one special character")
  IN Ok([isValid |-> Len(errors) = 0, errors |-> errors])

\* const charset = 'ABC...XYZabc...xyz0123456789!@#$%^&*'
Charset ==
  <<"A", "B", "C", "D", "E", "F", "G", "H", "I", "J", "K", "L", "M",
   "N", "O", "P", "Q", "R", "S", "T", "U", "V", "W", "X", "Y", "Z",
   "a", "b", "c", "d", "e", "f", "g", "h", "i", "j", "k", "l", "m",
   "n", "o", "p", "q", "r", "s", "t", "u", "v", "w", "x", "y", "z",
   "0", "1", "2", "3", "4", "5", "6", "7", "8", "9", "!", "@", "#",
   "$", "%", "^", "&", "*">>
\* a JavaScript number
Num(n) == [t |-> "number", v |-> n]
\* Math.random() returns k / RandomDenominator for some 0 <= k < RandomDenominator
RandomDenominator == 1000
\* Math.floor(r * charset.length) for r = k / RandomDenominator
RandomIndex(k) == (k * Len(Charset)) \div RandomDenominator
\* length: number = 16
DefaultLength == 16

\* variant: the loop runs while i <= length
RECURSIVE generateLoopInclusive(_, _, _, _)
generateLoopInclusive(i, length, draws, password) ==
  IF i <= length
    THEN generateLoopInclusive(i + 1, length, draws,
                               Append(password, Charset[RandomIndex(draws[i + 1]) + 1]))
    ELSE password
\* for (let i = 0; i < length; i++) password += charset[randomIndex]
RECURSIVE generateLoop(_, _, _, _)
generateLoop(i, length, draws, password) ==
  IF i < length
    THEN generateLoop(i + 1, length, draws,
                      Append(password, Charset[RandomIndex(draws[i + 1]) + 1]))
    ELSE password

\* generateSecurePassword(length) when Math.random() returns the draws in turn
generateSecurePassword(length, draws) ==
  LET n == IF length = Undefined THEN DefaultLength ELSE length.v
  IN Ok(Str(generateLoop(0, n, draws, <<>>)))

\* variant: every digest is reported stale
shouldRehashPasswordAlways(hashedPassword) == Ok(TRUE)
\* variant: the comparison of the rounds is reversed
shouldRehashPasswordReversed(hashedPassword) ==
  LET rounds == bcryptGetRounds(hashedPassword)
  IN IF rounds.ok THEN Ok(rounds.val > SALT_ROUNDS) ELSE Ok(TRUE)
\* variant: a digest at the configured rounds is rehashed too
shouldRehashPasswordInclusive(hashedPassword) ==
  LET rounds == bcryptGetRounds(hashedPassword)
  IN IF rounds.ok THEN Ok(rounds.val <= SALT_ROUNDS) ELSE Ok(TRUE)

\* the try returns the comparison, the catch returns true
shouldRehashPassword(hashedPassword) ==
  LET rounds == bcryptGetRounds(hashedPassword)
  IN IF rounds.ok THEN Ok(rounds.val < SALT_ROUNDS) ELSE Ok(TRUE)

\* --------------------------------------------------------------- user store
Users == {"u1", "u2"}
NULL == "null"
EmailOf(id) == IF id = "u1" THEN <<"a">> ELSE <<"b">>
\* the fields of a user row other than the password
Profile(id) ==
  IF id = "u1"
    THEN [id |-> "u1", email |-> Str(EmailOf("u1")), name |-> "Ann", role |-> "TENANT",
          emailVerified |-> "2024-01-01", image |-> NULL]
    ELSE [id |-> "u2", email |-> Str(EmailOf("u2")), name |-> NULL, role |-> "ADMIN",
          emailVerified |-> NULL, image |-> "b.png"]
Row(id, password) ==
  [id |-> Profile(id).id, email |-> Profile(id).email, name |-> Profile(id).name,
   password |-> password, role |-> Profile(id).role,
   emailVerified |-> Profile(id).emailVerified, image |-> Profile(id).image]

\* plaintexts: two of the minimum length, one legacy password below it
PwA == Repeat("p", MinPasswordLength)
PwB == Repeat("q", MinPasswordLength)
PwShort == Repeat("p", MinPasswordLength - 1)
\* what the password column of a row may hold before any login
StoredPasswords ==
  {Null, Garbage, Digest(10, 0, PwA), Digest(SALT_ROUNDS, 0, PwA), Digest(14, 0, PwA),
   Digest(10, 0, PwShort)}

\* what a caller may pass to authorize
EmailInputs == {Undefined, NotAString} \cup {Str(s) : s \in SeqsUpTo(EmailChars, MaxEmailLen)}
PasswordInputs == {Undefined, NotAString, Str(<<>>), Str(PwA), Str(PwB), Str(PwShort)}
CredentialInputs ==
  {Undefined} \cup {[t |-> "object", email |-> e, password |-> pw] :
                      e \in EmailInputs, pw \in PasswordInputs}
\* credentials?.email and credentials?.password
CredEmail(c) == IF c.t = "undefined" THEN Undefined ELSE c.email
CredPassword(c) == IF c.t = "undefined" THEN Undefined ELSE c.password

Procs == {"p1", "p2"}
Callers == {"p1"}

\* store: the user table; pc: where each attempt is suspended; credentials, user,
\* isPasswordValid, newHashedPassword: the locals of authorize; result: what the
\* promise settled with; log: the last console line of the attempt;
\* trace: the collaborator calls of the attempt that have returned, in order;
\* snapshot: the user table as the attempt's findUnique read it;
\* probe: a direct call of a function of lib/password, its argument and outcome
VARIABLES store, pc, credentials, user, isPasswordValid, newHashedPassword,
          result, log, trace, snapshot, probe
authVars == <<store, pc, credentials, user, isPasswordValid, newHashedPassword,
              result, log, trace, snapshot>>
vars == <<authVars, probe>>

\* prisma.user.findUnique({ where: { email } }): exact match on the unique column
findUnique(db, email) ==
  IF \E id \in Users : db[id].email = email
    THEN db[CHOOSE id \in Users : db[id].email = email]
    ELSE Null
\* variant: the where clause is lost and every row gets the new password
updateEveryRow(db, id, password) == [u \in Users |-> [db[u] EXCEPT !.password = password]]
\* prisma.user.update({ where: { id }, data: { password } })
update(db, id, password) == [db EXCEPT ![id].password = password]

\* ------------------------------------------------------- authorize: locals
Pending == [t |-> "pending"]
\* the promise authorize returned was rejected with error e
Rejected(e) == [t |-> "rejected", error |-> e]
\* a collaborator call made by an attempt, with what it was given and what came back
Event(op, arg, ret) == [op |-> op, arg |-> arg, ret |-> ret]

NoSnapshot == [id \in Users |-> Null]

\* no direct call of lib/password
\* a direct call of function fn with argument arg that has not returned; calls are
\* the bcrypt calls it made, of is the plaintext whose digest it was handed
Probe(fn, arg) == [fn |-> fn, arg |-> arg, ret |-> Pending, calls |-> <<>>, of |-> Undefined]
NoProbe == Probe("none", Undefined)

Init ==
  /\ probe = NoProbe
  /\ store \in {[id \in Users |-> Row(id, f[id])] : f \in [Users -> StoredPasswords]}
  /\ pc = [p \in Procs |-> "idle"]
  /\ credentials = [p \in Procs |-> Undefined]
  /\ user = [p \in Procs |-> Null]
  /\ isPasswordValid = [p \in Procs |-> FALSE]
  /\ newHashedPassword = [p \in Procs |-> Null]
  /\ result = [p \in Procs |-> Pending]
  /\ log = [p \in Procs |-> <<>>]
  /\ trace = [p \in Procs |-> <<>>]
  /\ snapshot = [p \in Procs |-> NoSnapshot]

\* ------------------------------------------- authorize: straight-line blocks
\* Each block gives the value the attempt resolves with and what it logs.
\* auth.ts:145-148
OnMissingCredentials ==
  [value |-> Null, log |-> <<"Missing email or password in login attempt">>]
\* variant: an unknown e-mail is reported with its own value
OnUserNotFoundLeaky ==
  [value |-> [error |-> "No user found"], log |-> <<"Login attempt for non-existent user">>]
\* auth.ts:173-176
OnUserNotFound ==
  [value |-> Null, log |-> <<"Login attempt for non-existent user">>]
\* auth.ts:179-182
OnNoPassword ==
  [value |-> Null, log |-> <<"Login attempt with password for OAuth-only user">>]
\* auth.ts:195-198
OnInvalidPassword ==
  [value |-> Null, log |-> <<"Invalid password for user">>]
\* variant: the outer catch logs and rethrows
OuterCatchRethrows(error) ==
  [value |-> Rejected(error), log |-> <<"Authentication error:">> \o error]
\* auth.ts:236-240, the catch of the outer try
OuterCatch(error) ==
  [value |-> Null, log |-> <<"Authentication error:">> \o error]
\* variant: the row is returned as selected, password column included
ReturnUserWithPassword(u) == [value |-> u, log |-> <<>>]
\* auth.ts:227-234
ReturnUser(u) ==
  [value |-> [id |-> u.id, email |-> u.email, name |-> u.name, role |-> u.role,
              emailVerified |-> u.emailVerified, image |-> u.image],
   log |-> <<>>]
\* variant: no inner try, a rehash error reaches the outer catch
RehashCatchPropagates(error, u) == OuterCatch(error)
\* auth.ts:215-218 then 227-234: the catch of the inner try, then the return
RehashCatch(error, u) ==
  [value |-> ReturnUser(u).value,
   log |-> <<"Failed to rehash password during login:">> \o error]

\* the attempt of p settles with completion c after the calls in events returned
Settle(p, c, events) ==
  /\ result' = [result EXCEPT ![p] = c.value]
  /\ log' = [log EXCEPT ![p] = IF c.log = <<>> THEN @ ELSE c.log]
  /\ trace' = [trace EXCEPT ![p] = @ \o events]
  /\ pc' = [pc EXCEPT ![p] = "done"]
\* the attempt of p suspends at the await named by next
Await(p, next, events, msg) ==
  /\ trace' = [trace EXCEPT ![p] = @ \o events]
  /\ log' = [log EXCEPT ![p] = IF msg = <<>> THEN @ ELSE msg]
  /\ pc' = [pc EXCEPT ![p] = next]
  /\ UNCHANGED result

\* ------------------------------------------------------ authorize: the steps
\* The caller invokes authorize(c); the body runs up to the first await.
AuthorizeWith(p, inputs) ==
  /\ pc[p] = "idle"
  /\ \E c \in inputs :
       /\ credentials' = [credentials EXCEPT ![p] = c]
       /\ IF ~Truthy(CredEmail(c)) \/ ~Truthy(CredPassword(c))
            THEN Settle(p, OnMissingCredentials, <<>>)
          ELSE IF ~IsString(c.email)
            THEN Settle(p, OuterCatch(<<"TypeError: toLowerCase is not a function">>), <<>>)
          ELSE Await(p, "findUnique", <<>>, <<>>)
  /\ UNCHANGED <<store, user, isPasswordValid, newHashedPassword, snapshot, probe>>

Authorize(p) == AuthorizeWith(p, CredentialInputs)

\* variant: the e-mail is used as typed
LookupKeyAsTyped(c) == c.email
\* where: { email: credentials.email.toLowerCase() }
LookupKey(c) == Str(toLowerCase(c.email.v))

\* variant: the row is not tested for a password (no lines 179-182)
FindUniqueReturnNoSecretCheck(p) ==
  /\ pc[p] = "findUnique"
  /\ LET key == LookupKey(credentials[p])
     IN \/ /\ Settle(p, OuterCatch(<<"findUnique failed">>),
                     <<Event("findUnique", key, Throw(<<"findUnique failed">>))>>)
           /\ UNCHANGED <<user, snapshot>>
        \/ LET u == findUnique(store, key)
               ev == Event("findUnique", key, Ok(u))
           IN /\ user' = [user EXCEPT ![p] = u]
              /\ snapshot' = [snapshot EXCEPT ![p] = store]
              /\ IF u = Null
                   THEN Settle(p, OnUserNotFound, <<ev>>)
                 ELSE Await(p, "verifyPassword", <<ev>>, <<>>)
  /\ UNCHANGED <<store, credentials, isPasswordValid, newHashedPassword, probe>>

\* await prisma.user.findUnique(...) resumes: lines 157-182
FindUniqueReturn(p) ==
  /\ pc[p] = "findUnique"
  /\ LET key == LookupKey(credentials[p])
     IN \/ /\ Settle(p, OuterCatch(<<"findUnique failed">>),
                     <<Event("findUnique", key, Throw(<<"findUnique failed">>))>>)
           /\ UNCHANGED <<user, snapshot>>
        \/ LET u == findUnique(store, key)
               ev == Event("findUnique", key, Ok(u))
           IN /\ user' = [user EXCEPT ![p] = u]
              /\ snapshot' = [snapshot EXCEPT ![p] = store]
              /\ IF u = Null
                   THEN Settle(p, OnUserNotFound, <<ev>>)
                 ELSE IF ~Truthy(u.password)
                   THEN Settle(p, OnNoPassword, <<ev>>)
                 ELSE Await(p, "verifyPassword", <<ev>>, <<>>)
  /\ UNCHANGED <<store, credentials, isPasswordValid, newHashedPassword, probe>>

\* variant: the result of verifyPassword is not tested (no lines 195-198)
VerifyPasswordReturnUnchecked(p) ==
  /\ pc[p] = "verifyPassword"
  /\ \E o \in verifyPassword(credentials[p].password, user[p].password) :
       LET ev == Event("verifyPassword", <<credentials[p].password, user[p].password>>, o)
       IN IF ~o.ok
            THEN Settle(p, OuterCatch(o.msg), <<ev>>) /\ UNCHANGED isPasswordValid
          ELSE /\ isPasswordValid' = [isPasswordValid EXCEPT ![p] = o.val]
               /\ LET sr == shouldRehashPassword(user[p].password)
                      ev2 == Event("shouldRehashPassword", user[p].password, sr)
                  IN IF ~sr.ok
                       THEN Settle(p, OuterCatch(sr.msg), <<ev, ev2>>)
                     ELSE IF sr.val
                       THEN Await(p, "hashPassword", <<ev, ev2>>,
                                  <<"Rehashing password for user">>)
                     ELSE Settle(p, ReturnUser(user[p]), <<ev, ev2>>)
  /\ UNCHANGED <<store, credentials, user, newHashedPassword, snapshot, probe>>

\* await verifyPassword(...) resumes: lines 190-208
VerifyPasswordReturn(p) ==
  /\ pc[p] = "verifyPassword"
  /\ \E o \in verifyPassword(credentials[p].password, user[p].password) :
       LET ev == Event("verifyPassword", <<credentials[p].password, user[p].password>>, o)
       IN IF ~o.ok
            THEN Settle(p, OuterCatch(o.msg), <<ev>>) /\ UNCHANGED isPasswordValid
          ELSE /\ isPasswordValid' = [isPasswordValid EXCEPT ![p] = o.val]
               /\ IF ~o.val
                    THEN Settle(p, OnInvalidPassword, <<ev>>)
                  ELSE LET sr == shouldRehashPassword(user[p].password)
                           ev2 == Event("shouldRehashPassword", user[p].password, sr)
                       IN IF ~sr.ok
                            THEN Settle(p, OuterCatch(sr.msg), <<ev, ev2>>)
                          ELSE IF sr.val
                            THEN Await(p, "hashPassword", <<ev, ev2>>,
                                       <<"Rehashing password for user">>)
                          ELSE Settle(p, ReturnUser(user[p]), <<ev, ev2>>)
  /\ UNCHANGED <<store, credentials, user, newHashedPassword, snapshot, probe>>

\* variant: the new digest is kept in a variable of the module, shared by the attempts
HashPasswordReturnShared(p) ==
  /\ pc[p] = "hashPassword"
  /\ \E o \in hashPassword(credentials[p].password) :
       LET ev == Event("hashPassword", credentials[p].password, o)
       IN IF ~o.ok
            THEN Settle(p, RehashCatch(o.msg, user[p]), <<ev>>)
                 /\ UNCHANGED newHashedPassword
          ELSE /\ newHashedPassword' = [q \in Procs |-> o.val]
               /\ Await(p, "update", <<ev>>, <<>>)
  /\ UNCHANGED <<store, credentials, user, isPasswordValid, snapshot, probe>>

\* variant: hashPassword is not awaited, the update is given its promise
HashPasswordReturnUnawaited(p) ==
  /\ pc[p] = "hashPassword"
  /\ newHashedPassword' = [newHashedPassword EXCEPT ![p] = Pending]
  /\ Await(p, "update", <<>>, <<>>)
  /\ UNCHANGED <<store, credentials, user, isPasswordValid, snapshot, probe>>

\* await hashPassword(credentials.password) resumes: lines 210-211, 215-218
HashPasswordReturn(p) ==
  /\ pc[p] = "hashPassword"
  /\ \E o \in hashPassword(credentials[p].password) :
       LET ev == Event("hashPassword", credentials[p].password, o)
       IN IF ~o.ok
            THEN Settle(p, RehashCatch(o.msg, user[p]), <<ev>>)
                 /\ UNCHANGED newHashedPassword
          ELSE /\ newHashedPassword' = [newHashedPassword EXCEPT ![p] = o.val]
               /\ Await(p, "update", <<ev>>, <<>>)
  /\ UNCHANGED <<store, credentials, user, isPasswordValid, snapshot, probe>>

\* variant: a failed update is tried once more
UpdateReturnRetry(p) ==
  /\ pc[p] = "update"
  /\ LET arg == <<user[p].id, newHashedPassword[p]>>
         failed == Event("update", arg, Throw(<<"update failed">>))
     IN \/ /\ IF \E i \in DOMAIN trace[p] : trace[p][i].op = "update"
                THEN Settle(p, RehashCatch(<<"update failed">>, user[p]), <<failed>>)
                ELSE Await(p, "update", <<failed>>, <<>>)
           /\ UNCHANGED store
        \/ /\ store' = update(store, user[p].id, newHashedPassword[p])
           /\ Settle(p, ReturnUser(user[p]), <<Event("update", arg, Ok(TRUE))>>)
  /\ UNCHANGED <<credentials, user, isPasswordValid, newHashedPassword, snapshot, probe>>

\* variant: the update is guarded, it writes only a row that still holds the
\* digest the attempt read
UpdateReturnIfUnchanged(p) ==
  /\ pc[p] = "update"
  /\ LET arg == <<user[p].id, newHashedPassword[p]>>
     IN \/ /\ Settle(p, RehashCatch(<<"update failed">>, user[p]),
                     <<Event("update", arg, Throw(<<"update failed">>))>>)
           /\ UNCHANGED store
        \/ /\ store' = IF store[user[p].id].password = user[p].password
                          THEN update(store, user[p].id, newHashedPassword[p])
                          ELSE store
           /\ Settle(p, ReturnUser(user[p]), <<Event("update", arg, Ok(TRUE))>>)
  /\ UNCHANGED <<credentials, user, isPasswordValid, newHashedPassword, snapshot, probe>>

\* await prisma.user.update(...) resumes: lines 211-234
UpdateReturn(p) ==
  /\ pc[p] = "update"
  /\ LET arg == <<user[p].id, newHashedPassword[p]>>
     IN \/ /\ Settle(p, RehashCatch(<<"update failed">>, user[p]),
                     <<Event("update", arg, Throw(<<"update failed">>))>>)
           /\ UNCHANGED store
        \/ /\ store' = update(store, user[p].id, newHashedPassword[p])
           /\ Settle(p, ReturnUser(user[p]), <<Event("update", arg, Ok(TRUE))>>)
  /\ UNCHANGED <<credentials, user, isPasswordValid, newHashedPassword, snapshot, probe>>

\* the caller takes the settled result; the next attempt starts fresh
Return(p) ==
  /\ pc[p] = "done"
  /\ pc' = [pc EXCEPT ![p] = "idle"]
  /\ credentials' = [credentials EXCEPT ![p] = Undefined]
  /\ user' = [user EXCEPT ![p] = Null]
  /\ isPasswordValid' = [isPasswordValid EXCEPT ![p] = FALSE]
  /\ newHashedPassword' = [newHashedPassword EXCEPT ![p] = Null]
  /\ result' = [result EXCEPT ![p] = Pending]
  /\ log' = [log EXCEPT ![p] = <<>>]
  /\ trace' = [trace EXCEPT ![p] = <<>>]
  /\ snapshot' = [snapshot EXCEPT ![p] = NoSnapshot]
  /\ UNCHANGED <<store, probe>>

Step(p) ==
  \/ Authorize(p)
  \/ FindUniqueReturn(p)
  \/ VerifyPasswordReturn(p)
  \/ HashPasswordReturn(p)
  \/ UpdateReturn(p)
  \/ Return(p)

\* one caller issuing login attempts one after another
Next == \E p \in Callers : Step(p)

Spec == Init /\ [][Next]_vars

\* every collaborator call of an attempt eventually returns or fails
CollaboratorsReturn ==
  \A p \in Callers :
    /\ WF_vars(FindUniqueReturn(p))
    /\ WF_vars(VerifyPasswordReturn(p))
    /\ WF_vars(HashPasswordReturn(p))
    /\ WF_vars(UpdateReturn(p))

SpecLive == Init /\ [][Next]_vars /\ CollaboratorsReturn

\* ------------------------------------------------------ concurrent attempts
\* two callers whose attempts interleave at the awaits; their credentials are
\* well-formed: an e-mail of a user in either case or of nobody, and a password
ConcEmailInputs ==
  {Str(s) : s \in SeqsUpTo({"a", "A"}, MaxEmailLen) \ {<<>>}} \cup {Str(<<"c">>)}
ConcCredentialInputs ==
  {[t |-> "object", email |-> e, password |-> pw] :
     e \in ConcEmailInputs, pw \in {Str(PwA), Str(PwB)}}

StepConc(p) ==
  \/ AuthorizeWith(p, ConcCredentialInputs)
  \/ FindUniqueReturn(p)
  \/ VerifyPasswordReturn(p)
  \/ HashPasswordReturn(p)
  \/ UpdateReturn(p)
  \/ Return(p)

NextConc == \E p \in Procs : StepConc(p)

SpecConc == Init /\ [][NextConc]_vars

\* ------------------------------- concurrent attempts, abandonment, a writer
\* two callers, each logging in once as either user, while the password of a
\* user may be changed by another part of the application and attempts may lose
\* their caller
RaceStoredPasswords == {Digest(10, 0, PwA), Digest(SALT_ROUNDS, 0, PwA)}
RaceCredentialInputs ==
  {[t |-> "object", email |-> Str(EmailOf(id)), password |-> pw] :
     id \in Users, pw \in {Str(PwA), Str(PwB)}}

InitRace ==
  /\ probe = NoProbe
  /\ store \in {[id \in Users |-> Row(id, f[id])] : f \in [Users -> RaceStoredPasswords]}
  /\ pc = [p \in Procs |-> "idle"]
  /\ credentials = [p \in Procs |-> Undefined]
  /\ user = [p \in Procs |-> Null]
  /\ isPasswordValid = [p \in Procs |-> FALSE]
  /\ newHashedPassword = [p \in Procs |-> Null]
  /\ result = [p \in Procs |-> Pending]
  /\ log = [p \in Procs |-> <<>>]
  /\ trace = [p \in Procs |-> <<>>]
  /\ snapshot = [p \in Procs |-> NoSnapshot]

Suspended == {"findUnique", "verifyPassword", "hashPassword", "update"}

\* the attempt of p loses its caller while suspended and is never resumed; an
\* update already handed to the store is applied as a whole or not at all
Abandon(p) ==
  /\ pc[p] \in Suspended
  /\ \/ UNCHANGED store
     \/ /\ pc[p] = "update"
        /\ store' = update(store, user[p].id, newHashedPassword[p])
  /\ pc' = [pc EXCEPT ![p] = "abandoned"]
  /\ UNCHANGED <<credentials, user, isPasswordValid, newHashedPassword, result, log,
                 trace, snapshot, probe>>

\* another writer stores a digest of a new password for user id; probe keeps
\* the change that was persisted
PasswordChange(id) ==
  /\ probe = NoProbe
  /\ \E o \in hashPassword(Str(PwB)) :
       /\ o.ok
       /\ store' = update(store, id, o.val)
       /\ probe' = [Probe("passwordChange", [id |-> id, password |-> Str(PwB)])
                      EXCEPT !.ret = o]
  /\ UNCHANGED <<pc, credentials, user, isPasswordValid, newHashedPassword,
                 result, log, trace, snapshot>>

StepRace(p) ==
  \/ AuthorizeWith(p, RaceCredentialInputs)
  \/ FindUniqueReturn(p)
  \/ VerifyPasswordReturn(p)
  \/ HashPasswordReturn(p)
  \/ UpdateReturn(p)
  \/ Abandon(p)

NextRace ==
  \/ \E p \in Procs : StepRace(p)
  \/ \E id \in Users : PasswordChange(id)

SpecRace == InitRace /\ [][NextRace]_vars

\* ------------------------------------------- lib/password called directly
\* digests a caller may hand to shouldRehashPassword: every bcrypt cost, stored
\* and fresh salts, and strings that are no digest
DigestInputs ==
  {Digest(r, s, pw) : r \in 4..31, s \in 0..NumSalts, pw \in {PwA, PwShort}}
    \cup {Garbage, Str(<<>>)}

\* plaintext characters: a lowercase letter, an uppercase letter, a digit, a
\* special character and an accented letter that is in none of the four classes
PwChars == {"p", "A", "1", "!", "U+00E9"}
FillChars == {"p", "U+00E9"}
PwLengths == {0, 1, MinPasswordLength - 1, MinPasswordLength, MaxPasswordLength, MaxPasswordLength + 1}
\* the string of n characters that ends with tail and is filled with fill before it
Plain(fill, n, tail) == Repeat(fill, n - Len(tail)) \o tail
PlainStrings(maxTail) ==
  UNION {{Str(Plain(f, n, t)) : f \in FillChars,
                                 t \in {x \in SeqsUpTo(PwChars, maxTail) : Len(x) <= n}} :
         n \in PwLengths}
\* what a caller may hand over as a plaintext
PlainInputs == {Undefined, Null, NotAString} \cup PlainStrings(MaxTailLen)
\* what a caller may hand over as a stored digest
HashedInputs ==
  {Undefined, Null, NotAString, Str(<<>>), Garbage}
    \cup {Digest(r, s, BcryptKey(pw)) :
            r \in {10, SALT_ROUNDS}, s \in Salts,
            pw \in {PwA, PwShort, Plain("U+00E9", MaxPasswordLength, <<"p">>)}}

\* the lengths a caller may ask of generateSecurePassword, or none
LengthInputs == {Undefined, Num(DefaultLength + 1)} \cup {Num(n) : n \in 0..MaxGenLen}
\* values of Math.random(): the least, a middle one and the greatest
RandomSamples == {0, RandomDenominator \div 2, RandomDenominator - 1}
\* the values Math.random() may return in a run of n + 1 or fewer draws: any
\* for a short run, one of the samples throughout or the samples in turn for a long one
RandomStreams(n) ==
  IF n <= MaxGenLen
    THEN [1..(n + 1) -> RandomSamples]
    ELSE {[i \in 1..(n + 1) |-> k] : k \in RandomSamples}
           \cup {[i \in 1..(n + 1) |->
                    CASE i % 3 = 0 -> 0
                      [] i % 3 = 1 -> RandomDenominator \div 2
                      [] OTHER -> RandomDenominator - 1]}

\* the arguments of a call of verifyPassword
VerifyArgs(x, d) == [password |-> x, hashedPassword |-> d]

\* the strings a caller may hand to validatePasswordStrength
StrengthInputs == PlainStrings(MaxMixLen)

\* authorize is not running
IdleAuth ==
  /\ store = [id \in Users |-> Row(id, Null)]
  /\ pc = [p \in Procs |-> "idle"]
  /\ credentials = [p \in Procs |-> Undefined]
  /\ user = [p \in Procs |-> Null]
  /\ isPasswordValid = [p \in Procs |-> FALSE]
  /\ newHashedPassword = [p \in Procs |-> Null]
  /\ result = [p \in Procs |-> Pending]
  /\ log = [p \in Procs |-> <<>>]
  /\ trace = [p \in Procs |-> <<>>]
  /\ snapshot = [p \in Procs |-> NoSnapshot]

InitPassword ==
  /\ \/ probe \in {Probe("shouldRehashPassword", d) : d \in DigestInputs}
     \/ probe \in {Probe("hashPassword", x) : x \in PlainInputs}
     \/ probe \in {Probe("verifyPassword", VerifyArgs(x, d)) : x \in PlainInputs, d \in HashedInputs}
     \/ probe \in {Probe("validatePasswordStrength", x) : x \in StrengthInputs}
     \/ probe \in {Probe("generateSecurePassword", n) : n \in LengthInputs}
  /\ IdleAuth

\* shouldRehashPassword(probe.arg) is evaluated
CallShouldRehashPassword ==
  /\ probe.fn = "shouldRehashPassword" /\ probe.ret = Pending
  /\ probe' = [probe EXCEPT !.ret = shouldRehashPassword(probe.arg)]
  /\ UNCHANGED authVars

\* await hashPassword(probe.arg) settles
CallHashPassword ==
  /\ probe.fn = "hashPassword" /\ probe.ret = Pending
  /\ \E r \in hashPasswordRun(probe.arg) :
       probe' = [probe EXCEPT !.ret = r.out, !.calls = r.calls]
  /\ UNCHANGED authVars

\* await verifyPassword(password, hashedPassword) settles
CallVerifyPassword ==
  /\ probe.fn = "verifyPassword" /\ probe.ret = Pending
  /\ \E r \in verifyPasswordRun(probe.arg.password, probe.arg.hashedPassword) :
       probe' = [probe EXCEPT !.ret = r.out, !.calls = r.calls]
  /\ UNCHANGED authVars

\* the digest hashPassword resolved to is handed to verifyPassword with a plaintext
VerifyHashed ==
  /\ probe.fn = "hashPassword" /\ probe.ret # Pending /\ probe.ret.ok
  /\ \E x \in PlainInputs :
       probe' = [Probe("verifyPassword", VerifyArgs(x, probe.ret.val)) EXCEPT !.of = probe.arg]
  /\ UNCHANGED authVars

\* validatePasswordStrength(probe.arg) is evaluated
CallValidatePasswordStrength ==
  /\ probe.fn = "validatePasswordStrength" /\ probe.ret = Pending
  /\ probe' = [probe EXCEPT !.ret = validatePasswordStrength(probe.arg)]
  /\ UNCHANGED authVars

\* generateSecurePassword(probe.arg) is evaluated, Math.random() drawing its values
CallGenerateSecurePassword ==
  /\ probe.fn = "generateSecurePassword" /\ probe.ret = Pending
  /\ \E draws \in RandomStreams(IF probe.arg = Undefined THEN DefaultLength ELSE probe.arg.v) :
       probe' = [probe EXCEPT !.ret = generateSecurePassword(probe.arg, draws)]
  /\ UNCHANGED authVars

NextPassword ==
  \/ CallGenerateSecurePassword
  \/ CallValidatePasswordStrength
  \/ CallShouldRehashPassword
  \/ CallHashPassword
  \/ CallVerifyPassword
  \/ VerifyHashed

SpecPassword == InitPassword /\ [][NextPassword]_vars

\* ------------------------------------------------------------- types/auth
UserRoles == {"TENANT", "LANDLORD", "ADMIN"}
\* a JavaScript string value
JsString(r) == [t |-> "string", v |-> r]
\* user?.role: undefined for a null or undefined user, its role otherwise
OptionalRole(u) == IF u = Null \/ u = Undefined THEN Undefined ELSE JsString(u.role)

\* variant: user.role without the optional chaining
hasRoleUnchained(u, role) ==
  IF u = Null \/ u = Undefined
    THEN Throw(<<"TypeError: Cannot read properties of null (reading 'role')">>)
    ELSE Ok(JsString(u.role) = JsString(role))
hasRole(u, role) == Ok(OptionalRole(u) = JsString(role))

\* variant: the role is compared with LANDLORD
isAdminLandlord(u) == Ok(OptionalRole(u) = JsString("LANDLORD"))
isAdmin(u) == Ok(OptionalRole(u) = JsString("ADMIN"))

isLandlordOrAdmin(u) ==
  Ok(OptionalRole(u) = JsString("LANDLORD") \/ OptionalRole(u) = JsString("ADMIN"))

isAuthenticated(session) ==
  Ok(session # Null /\ session # Undefined /\ session.user # Undefined)

\* the identities a caller may hand over: none, or a user in any role, verified or not
IdentityInputs ==
  {Undefined, Null}
    \cup {[Profile(id) EXCEPT !.role = r, !.emailVerified = e] :
            id \in Users, r \in UserRoles, e \in {NULL, "2024-01-01"}}
\* the sessions a caller may hand over: none, or an object with or without a user
SessionInputs ==
  {Undefined, Null} \cup {[user |-> u, expires |-> "2030-01-01"] : u \in IdentityInputs}
\* the arguments of a call of hasRole
HasRoleArgs(u, role) == [user |-> u, role |-> role]

InitTypes ==
  /\ \/ probe \in {Probe("hasRole", HasRoleArgs(u, r)) : u \in IdentityInputs, r \in UserRoles}
     \/ probe \in {Probe("isAdmin", u) : u \in IdentityInputs}
     \/ probe \in {Probe("isLandlordOrAdmin", u) : u \in IdentityInputs}
     \/ probe \in {Probe("isAuthenticated", x) : x \in SessionInputs}
  /\ IdleAuth

CallHasRole ==
  /\ probe.fn = "hasRole" /\ probe.ret = Pending
  /\ probe' = [probe EXCEPT !.ret = hasRole(probe.arg.user, probe.arg.role)]
  /\ UNCHANGED authVars

CallIsAdmin ==
  /\ probe.fn = "isAdmin" /\ probe.ret = Pending
  /\ probe' = [probe EXCEPT !.ret = isAdmin(probe.arg)]
  /\ UNCHANGED authVars

CallIsLandlordOrAdmin ==
  /\ probe.fn = "isLandlordOrAdmin" /\ probe.ret = Pending
  /\ probe' = [probe EXCEPT !.ret = isLandlordOrAdmin(probe.arg)]
  /\ UNCHANGED authVars

CallIsAuthenticated ==
  /\ probe.fn = "isAuthenticated" /\ probe.ret = Pending
  /\ probe' = [probe EXCEPT !.ret = isAuthenticated(probe.arg)]
  /\ UNCHANGED authVars

NextTypes ==
  \/ CallHasRole
  \/ CallIsAdmin
  \/ CallIsLandlordOrAdmin
  \/ CallIsAuthenticated

SpecTypes == InitTypes /\ [][NextTypes]_vars

\* ------------------------------------------------------- auth.ts callbacks
\* Objects live in a heap so that an assignment to a field and the identity of
\* the object returned can be told: a reference names a heap cell.
Ref(cell) == [t |-> "ref", to |-> cell]
\* null, undefined and nothing else here is falsy
IsPresent(x) == x # Null /\ x # Undefined
\* the user object NextAuth hands to a callback
CallbackUser(id, role, verified) ==
  [t |-> "object", id |-> id, email |-> Str(EmailOf(id)), role |-> role,
   emailVerified |-> verified]
CallbackUsers ==
  {CallbackUser(id, r, e) : id \in Users, r \in UserRoles, e \in {NULL, "2024-01-01"}}
\* session.user as NextAuth builds it, before or after an earlier callback
SessionUsers ==
  {[name |-> "Ann", email |-> Str(EmailOf("u1")), image |-> NULL, id |-> i, role |-> r] :
     i \in {Undefined, JsString("u2")}, r \in {Undefined, JsString("ADMIN")}}
\* the heaps a session callback may be given: the session and what its user field holds
SessionHeaps ==
  {[session |-> [user |-> u, expires |-> "2030-01-01"], sessionUser |-> su] :
     u \in {Undefined, Null, Ref("sessionUser")}, su \in SessionUsers}
SessionArgs ==
  {[session |-> Ref("session"), user |-> u, heap |-> h] :
     u \in {Undefined, Null} \cup CallbackUsers, h \in SessionHeaps}

\* variant: the id is copied, the role is not
sessionCallbackIdOnly(a) ==
  LET su == a.heap.session.user
  IN IF IsPresent(su) /\ IsPresent(a.user)
       THEN Ok([value |-> a.session,
                heap |-> [a.heap EXCEPT ![su.to].id = JsString(a.user.id)]])
       ELSE Ok([value |-> a.session, heap |-> a.heap])
\* callbacks.session({ session, user }): lines 297-313
sessionCallback(a) ==
  LET su == a.heap.session.user
  IN IF IsPresent(su) /\ IsPresent(a.user)
       THEN Ok([value |-> a.session,
                heap |-> [a.heap EXCEPT ![su.to].id = JsString(a.user.id),
                                        ![su.to].role = JsString(a.user.role)]])
       ELSE Ok([value |-> a.session, heap |-> a.heap])

\* the account NextAuth hands to signIn: none, the credentials provider, an OAuth one
AccountInputs ==
  {Undefined, Null} \cup {[t |-> "object", provider |-> pr] : pr \in {"credentials", "google"}}
SignInArgs == {[user |-> u, account |-> acc] : u \in CallbackUsers, acc \in AccountInputs}
\* account?.provider
OptionalProvider(acc) == IF IsPresent(acc) THEN JsString(acc.provider) ELSE Undefined
\* the call is suspended at the await of op
Awaiting(op) == [t |-> "awaiting", op |-> op]
\* select: { emailVerified: true, role: true }
SelectVerifiedAndRole(row) ==
  IF row = Null THEN Null ELSE [emailVerified |-> row.emailVerified, role |-> row.role]

InitCallbacks ==
  /\ \/ probe \in {Probe("session", a) : a \in SessionArgs}
     \/ probe \in {Probe("signIn", a) : a \in SignInArgs}
  /\ IdleAuth

\* the session callback runs; it has no await
CallSession ==
  /\ probe.fn = "session" /\ probe.ret = Pending
  /\ probe' = [probe EXCEPT !.ret = sessionCallback(probe.arg)]
  /\ UNCHANGED authVars

\* signIn({ user, account }) runs up to its await or to its return: lines 352-362, 378
CallSignIn ==
  /\ probe.fn = "signIn" /\ probe.ret = Pending
  /\ probe' = [probe EXCEPT !.ret =
                  IF OptionalProvider(probe.arg.account) = JsString("credentials")
                    THEN Awaiting("findUnique")
                    ELSE Ok(TRUE)]
  /\ UNCHANGED authVars

\* variant: the block that is commented out runs, unverified users are refused
SignInFindUniqueReturnVerifiedOnly ==
  /\ probe.fn = "signIn" /\ probe.ret = Awaiting("findUnique")
  /\ LET key == probe.arg.user.email
     IN \/ probe' = [probe EXCEPT
                       !.calls = <<Invocation("findUnique", key, Throw(<<"findUnique failed">>))>>,
                       !.ret = Ok(FALSE)]
        \/ LET dbUser == SelectVerifiedAndRole(findUnique(store, key))
           IN probe' = [probe EXCEPT
                          !.calls = <<Invocation("findUnique", key, Ok(dbUser))>>,
                          !.ret = Ok(dbUser # Null /\ dbUser.emailVerified # NULL)]
  /\ UNCHANGED authVars

\* await prisma.user.findUnique(...) of signIn resumes: lines 362-382
SignInFindUniqueReturn ==
  /\ probe.fn = "signIn" /\ probe.ret = Awaiting("findUnique")
  /\ LET key == probe.arg.user.email
     IN \/ probe' = [probe EXCEPT
                       !.calls = <<Invocation("findUnique", key, Throw(<<"findUnique failed">>))>>,
                       !.ret = Ok(FALSE)]
        \/ LET dbUser == SelectVerifiedAndRole(findUnique(store, key))
           IN probe' = [probe EXCEPT
                          !.calls = <<Invocation("findUnique", key, Ok(dbUser))>>,
                          !.ret = Ok(TRUE)]
  /\ UNCHANGED authVars

NextCallbacks ==
  \/ CallSession
  \/ CallSignIn
  \/ SignInFindUniqueReturn

SpecCallbacks == InitCallbacks /\ [][NextCallbacks]_vars

\* ------------------------------------------------------ reading the traces
\* ------------------------------------------ a login, then a second login
\* the first caller logs in once and, when that attempt has settled, the second
\* caller logs in once; passwords of two-byte letters are among the inputs
PwWide == Plain("U+00E9", MaxPasswordLength, <<>>)
PwWideOther == Plain("U+00E9", MaxPasswordLength, <<"p">>)
ReloginStoredPasswords == {Digest(10, 0, PwA), Digest(10, 0, BcryptKey(PwWide))}
ReloginCredentialInputs ==
  {[t |-> "object", email |-> Str(EmailOf(id)), password |-> Str(pw)] :
     id \in Users, pw \in {PwA, PwB, PwWide, PwWideOther}}

InitRelogin ==
  /\ probe = NoProbe
  /\ store \in {[id \in Users |-> Row(id, f[id])] : f \in [Users -> ReloginStoredPasswords]}
  /\ pc = [p \in Procs |-> "idle"]
  /\ credentials = [p \in Procs |-> Undefined]
  /\ user = [p \in Procs |-> Null]
  /\ isPasswordValid = [p \in Procs |-> FALSE]
  /\ newHashedPassword = [p \in Procs |-> Null]
  /\ result = [p \in Procs |-> Pending]
  /\ log = [p \in Procs |-> <<>>]
  /\ trace = [p \in Procs |-> <<>>]
  /\ snapshot = [p \in Procs |-> NoSnapshot]

\* the first login of the two
FirstLogin == AuthorizeWith("p1", ReloginCredentialInputs)
\* the login that follows it
SecondLogin == pc["p1"] = "done" /\ AuthorizeWith("p2", ReloginCredentialInputs)

NextRelogin ==
  \/ FirstLogin
  \/ SecondLogin
  \/ \E p \in Procs : FindUniqueReturn(p)
  \/ \E p \in Procs : VerifyPasswordReturn(p)
  \/ \E p \in Procs : HashPasswordReturn(p)
  \/ \E p \in Procs : UpdateReturn(p)

SpecRelogin == InitRelogin /\ [][NextRelogin]_vars

\* the calls of attempt p to collaborator op that have returned
Calls(p, op) == {i \in DOMAIN trace[p] : trace[p][i].op = op}
Called(p, op) == Calls(p, op) # {}
\* the outcome of the call of attempt p to op (each is called at most once)
Outcome(p, op) == trace[p][CHOOSE i \in Calls(p, op) : TRUE].ret
Argument(p, op) == trace[p][CHOOSE i \in Calls(p, op) : TRUE].arg
Threw(p, op) == Called(p, op) /\ ~Outcome(p, op).ok
Returned(p, op, v) == Called(p, op) /\ Outcome(p, op).ok /\ Outcome(p, op).val = v

IdentityFields == {"id", "email", "name", "role", "emailVerified", "image"}
IsIdentity(r) == DOMAIN r = IdentityFields

\* ------------------------------------------------------------------- claims

\* C1: an authorize attempt never throws to its caller: whatever the
\* credentials and whichever collaborator throws, a settled attempt has
\* resolved with null or with an identity object, never rejected.
AuthorizeNeverThrows ==
  \A p \in Procs :
    /\ pc[p] = "done" => (result[p] = Null \/ IsIdentity(result[p]))
    /\ pc[p] # "done" => result[p] = Pending
\* an attempt whose verifyPassword threw has settled with null
AuthorizeNeverThrowsWitness ==
  \E p \in Procs : pc[p] = "done" /\ Threw(p, "verifyPassword") /\ result[p] = Null

\* the store returned a row for the lower-cased e-mail, the row has a digest and
\* verifyPassword(plaintext, digest) returned true, all in the attempt of p
IsVerified(p) ==
  /\ Truthy(CredEmail(credentials[p])) /\ Truthy(CredPassword(credentials[p]))
  /\ IsString(credentials[p].email)
  /\ Called(p, "findUnique")
  /\ Argument(p, "findUnique") = Str(toLowerCase(credentials[p].email.v))
  /\ Outcome(p, "findUnique").ok
  /\ LET u == Outcome(p, "findUnique").val
     IN /\ u # Null
        /\ u.email = Argument(p, "findUnique")
        /\ Truthy(u.password)
        /\ Called(p, "verifyPassword")
        /\ Argument(p, "verifyPassword") = <<credentials[p].password, u.password>>
        /\ Returned(p, "verifyPassword", TRUE)

\* C2: authorize returns an identity only if e-mail and password were supplied,
\* the store returned a row for the lower-cased e-mail, the row has a digest and
\* verifyPassword(plaintext, digest) returned true; otherwise it returns null.
IdentityOnlyIfVerified ==
  \A p \in Procs :
    pc[p] = "done" =>
      /\ result[p] # Null => IsVerified(p)
      /\ ~IsVerified(p) => result[p] = Null
\* a login with the right password has returned the identity
IdentityOnlyIfVerifiedWitness ==
  \E p \in Procs : pc[p] = "done" /\ IsVerified(p) /\ IsIdentity(result[p])

\* the causes for which an attempt fails
MissingInput(p) ==
  ~Truthy(CredEmail(credentials[p])) \/ ~Truthy(CredPassword(credentials[p]))
UnknownEmail(p) == Returned(p, "findUnique", Null)
NoStoredPassword(p) ==
  /\ Called(p, "findUnique") /\ Outcome(p, "findUnique").ok
  /\ Outcome(p, "findUnique").val # Null
  /\ ~Truthy(Outcome(p, "findUnique").val.password)
WrongPassword(p) == Returned(p, "verifyPassword", FALSE)
InternalError(p) == Threw(p, "findUnique") \/ Threw(p, "verifyPassword")

\* C3: failure is uniform: an attempt that failed for missing input, an unknown
\* e-mail, an account without password, a wrong password or an internal error
\* has returned the same value, null, whatever the cause.
UniformFailure ==
  \A p \in Procs :
    pc[p] = "done" =>
      ((MissingInput(p) \/ UnknownEmail(p) \/ NoStoredPassword(p)
          \/ WrongPassword(p) \/ InternalError(p))
        => result[p] = Null)
\* an attempt for an unknown e-mail returned null and logged that cause
UniformFailureWitness ==
  \E p \in Procs :
    /\ pc[p] = "done" /\ UnknownEmail(p) /\ result[p] = Null
    /\ log[p] = <<"Login attempt for non-existent user">>

\* C4: a failing rehash does not change the login outcome: once verifyPassword
\* has returned true the attempt returns the identity, whether hashPassword
\* rejected, the store update rejected, or both succeeded.
RehashFailureKeepsLogin ==
  \A p \in Procs :
    (pc[p] = "done" /\ Returned(p, "verifyPassword", TRUE)) =>
      /\ IsIdentity(result[p])
      /\ result[p].id = user[p].id
\* hashPassword rejected during the rehash and the login still succeeded
RehashFailureKeepsLoginWitness ==
  \E p \in Procs :
    pc[p] = "done" /\ Threw(p, "hashPassword") /\ IsIdentity(result[p])

\* C5: the value returned on success has exactly the fields id, email, name,
\* role, emailVerified and image, each copied from the row that was looked up,
\* and no password field.
IdentityWithoutSecret ==
  \A p \in Procs :
    (pc[p] = "done" /\ result[p] # Null) =>
      /\ DOMAIN result[p] = IdentityFields
      /\ "password" \notin DOMAIN result[p]
      /\ \A f \in IdentityFields : result[p][f] = user[p][f]
\* a login that rehashed and stored a new digest has returned the identity
IdentityWithoutSecretWitness ==
  \E p \in Procs :
    /\ pc[p] = "done" /\ Returned(p, "update", TRUE)
    /\ result[p] # Null /\ result[p].email = Str(<<"a">>)

\* the k-th call of attempt p was to op
IsCall(p, k, op) == k \in DOMAIN trace[p] /\ trace[p][k].op = op
\* no call follows the call e: it threw, found no row, found a row without
\* password, found the password wrong, or found the digest current
EndsCalls(e) ==
  \/ ~e.ret.ok
  \/ e.op = "findUnique" /\ (e.ret.val = Null \/ ~Truthy(e.ret.val.password))
  \/ e.op = "verifyPassword" /\ e.ret.val = FALSE
  \/ e.op = "shouldRehashPassword" /\ e.ret.val = FALSE
\* the calls of p so far are a prefix of findUnique, verifyPassword,
\* shouldRehashPassword, hashPassword, update, each after its predecessor succeeded
OrderedCalls(p) ==
  /\ Len(trace[p]) <= 5
  /\ \A k \in DOMAIN trace[p] :
       /\ trace[p][k].op = CASE k = 1 -> "findUnique" [] k = 2 -> "verifyPassword"
                               [] k = 3 -> "shouldRehashPassword"
                               [] k = 4 -> "hashPassword" [] OTHER -> "update"
       /\ k > 1 => ~EndsCalls(trace[p][k - 1])
  /\ trace[p] # <<>> => ~MissingInput(p)
\* a call is in flight only after the calls before it succeeded
AwaitAfterPredecessors(p) ==
  /\ pc[p] = "idle" => trace[p] = <<>>
  /\ pc[p] = "findUnique" => trace[p] = <<>> /\ ~MissingInput(p)
  /\ pc[p] = "verifyPassword" =>
       Len(trace[p]) = 1 /\ ~EndsCalls(trace[p][1]) /\ Truthy(user[p].password)
  /\ pc[p] = "hashPassword" =>
       /\ Len(trace[p]) = 3
       /\ Returned(p, "verifyPassword", TRUE)
       /\ Returned(p, "shouldRehashPassword", TRUE)
  /\ pc[p] = "update" =>
       /\ Len(trace[p]) = 4
       /\ Returned(p, "verifyPassword", TRUE)
       /\ Returned(p, "hashPassword", newHashedPassword[p])
\* a settled attempt stopped at its first failure, or ran every step
SettledAtFailureOrEnd(p) ==
  pc[p] = "done" =>
    /\ result[p] = Null =>
         \/ trace[p] = <<>>
         \/ Len(trace[p]) <= 2 /\ EndsCalls(trace[p][Len(trace[p])])
    /\ result[p] # Null =>
         /\ Len(trace[p]) >= 3
         /\ Len(trace[p]) < 5 => EndsCalls(trace[p][Len(trace[p])])

\* C6: the steps of one attempt occur strictly in the order input validation,
\* lookup, stored-secret check, verifyPassword, shouldRehashPassword,
\* hashPassword, store update, return: no verify before the lookup returned a row
\* with a digest, no hashPassword or update before verifyPassword returned true,
\* and no step after the attempt reached failure.
StepsInOrder ==
  \A p \in Procs : OrderedCalls(p) /\ AwaitAfterPredecessors(p) /\ SettledAtFailureOrEnd(p)
\* an attempt ran all five calls
StepsInOrderWitness ==
  \E p \in Procs : pc[p] = "done" /\ Len(trace[p]) = 5 /\ IsCall(p, 5, "update")

\* every column of a row but the password
ProfileFields == {"id", "email", "name", "role", "emailVerified", "image"}
\* the step changes the store only as the update of attempt p that is returning
IsRehashWrite(p) ==
  /\ pc[p] = "update" /\ pc'[p] = "done"
  /\ Returned(p, "verifyPassword", TRUE)
  /\ Returned(p, "shouldRehashPassword", TRUE)
  /\ IsIdentity(result'[p])
  /\ \A id \in Users \ {user[p].id} : store'[id] = store[id]
  /\ \A f \in ProfileFields : store'[user[p].id][f] = store[user[p].id][f]
  /\ store'[user[p].id].password = newHashedPassword[p]
\* an attempt that returned null, or whose digest needed no rehash, asked for no update
NoWriteWithoutRehash ==
  \A p \in Procs :
    (pc[p] = "done" /\ (result[p] = Null \/ Returned(p, "shouldRehashPassword", FALSE)))
      => (~Called(p, "update") /\ (snapshot[p] # NoSnapshot => store = snapshot[p]))

\* C7: an attempt writes to the store only on the rehash path of a successful
\* login: attempts returning null and attempts whose digest needs no rehash leave
\* the store unchanged, and a rehash write changes only the password of the
\* authenticated user's own row.
StoreWrittenOnlyByRehash ==
  /\ []NoWriteWithoutRehash
  /\ [][store' # store => \E p \in Procs : IsRehashWrite(p)]_vars
\* a rehash has replaced the digest of the row the attempt read
StoreWrittenOnlyByRehashWitness ==
  \E p \in Procs :
    /\ pc[p] = "done" /\ Returned(p, "update", TRUE)
    /\ store[user[p].id].password = newHashedPassword[p]
    /\ store[user[p].id].password # user[p].password

\* the digest's work factor is below the configured one or cannot be extracted
IsStale(d) == ~IsBcrypt(d) \/ d.rounds < SALT_ROUNDS
\* d is a digest of plaintext pw at the configured work factor
IsCurrentDigestOf(d, pw) == IsBcrypt(d) /\ d.rounds = SALT_ROUNDS /\ d.pw = pw.v
\* attempt p verified its password against a stale digest and has settled
VerifiedAgainstStale(p) ==
  /\ pc[p] = "done"
  /\ Returned(p, "verifyPassword", TRUE)
  /\ IsStale(user[p].password)

\* C8 as stated: whenever verification succeeds against a digest whose work
\* factor is below 12 or unparsable, the attempt computes a new digest of the
\* plaintext at work factor 12 and asks the store to persist it for the
\* identity's id before returning the identity.
RehashAlwaysRequested ==
  \A p \in Procs :
    VerifiedAgainstStale(p) =>
      /\ Called(p, "hashPassword") /\ Outcome(p, "hashPassword").ok
      /\ IsCurrentDigestOf(Outcome(p, "hashPassword").val, credentials[p].password)
      /\ Called(p, "update")
      /\ Argument(p, "update") = <<user[p].id, Outcome(p, "hashPassword").val>>
      /\ IsIdentity(result[p])

\* C8 amended: whenever verification succeeds against such a digest, the attempt
\* calls hashPassword on the supplied plaintext before returning the identity;
\* if hashPassword resolves, its digest is of that plaintext at work factor 12
\* and the store is asked to persist exactly it for the identity's id; if
\* hashPassword rejects, no update is requested.
RehashRequestedWhenHashResolves ==
  \A p \in Procs :
    VerifiedAgainstStale(p) =>
      /\ Called(p, "hashPassword")
      /\ Argument(p, "hashPassword") = credentials[p].password
      /\ IsIdentity(result[p])
      /\ IF Outcome(p, "hashPassword").ok
           THEN /\ IsCurrentDigestOf(Outcome(p, "hashPassword").val, credentials[p].password)
                /\ Called(p, "update")
                /\ Argument(p, "update") = <<user[p].id, Outcome(p, "hashPassword").val>>
           ELSE ~Called(p, "update")
\* a login against a work-factor-10 digest asked the store for the new digest
RehashRequestedWhenHashResolvesWitness ==
  \E p \in Procs :
    /\ VerifiedAgainstStale(p) /\ user[p].password.rounds = 10
    /\ Called(p, "update") /\ Argument(p, "update")[2].rounds = SALT_ROUNDS

\* C10: shouldRehashPassword(digest) returns true iff the digest's work factor
\* cannot be extracted or is strictly below 12, false for 12 and above; it
\* never throws and changes nothing.
ShouldRehashIffStale ==
  /\ [](probe.fn = "shouldRehashPassword" /\ probe.ret # Pending =>
          /\ probe.ret.ok
          /\ probe.ret.val <=> (~IsBcrypt(probe.arg) \/ probe.arg.rounds < 12))
  /\ [][probe' # probe => UNCHANGED authVars]_vars
\* the function has been applied to a digest of exactly 12 rounds
ShouldRehashIffStaleWitness ==
  /\ probe.fn = "shouldRehashPassword" /\ probe.ret = Ok(FALSE)
  /\ IsBcrypt(probe.arg) /\ probe.arg.rounds = 12

\* the characters c and d are the same letter in either case
SameLetter(c, d) == c = d \/ {c, d} = {"a", "A"} \/ {c, d} = {"b", "B"}
\* the e-mails of credentials c and d differ at most in letter case
CaseVariants(c, d) ==
  /\ IsString(c.email) /\ IsString(d.email)
  /\ Len(c.email.v) = Len(d.email.v)
  /\ \A i \in 1..Len(c.email.v) : SameLetter(c.email.v[i], d.email.v[i])
\* both attempts read the same store state and no lookup or comparison threw
ComparableAttempts(p, q) ==
  /\ pc[p] = "done" /\ pc[q] = "done"
  /\ CaseVariants(credentials[p], credentials[q])
  /\ credentials[p].password = credentials[q].password
  /\ snapshot[p] # NoSnapshot /\ snapshot[p] = snapshot[q]
  /\ ~InternalError(p) /\ ~InternalError(q)

\* C9: authorize queries the store with the lower-cased e-mail: two attempts
\* whose e-mails differ only in letter case query the same key, and with the
\* same password and the same store state they return the same outcome.
CaseInsensitiveLookup ==
  \A p, q \in Procs :
    /\ (Called(p, "findUnique") /\ Called(q, "findUnique")
          /\ CaseVariants(credentials[p], credentials[q]))
        => Argument(p, "findUnique") = Argument(q, "findUnique")
    /\ ComparableAttempts(p, q) => result[p] = result[q]
\* the same user logged in as "a" and as "A"
CaseInsensitiveLookupWitness ==
  \E p, q \in Procs :
    /\ ComparableAttempts(p, q)
    /\ credentials[p].email = Str(<<"a">>) /\ credentials[q].email = Str(<<"A">>)
    /\ IsIdentity(result[p]) /\ IsIdentity(result[q])

\* ------------------------------------------------ lib/password called directly
\* the message mentions the phrase
Mentions(msg, phrase) == \E i \in DOMAIN msg : msg[i] = phrase
\* the call was rejected with a message that mentions the phrase, and bcrypt was
\* not invoked
RejectedUnhashed(phrase) ==
  /\ ~probe.ret.ok
  /\ probe.calls = <<>>
  /\ Mentions(probe.ret.msg, phrase)

\* C11: hashPassword rejects every input that is missing, not a string, empty,
\* shorter than 8 or longer than 72 characters without invoking bcrypt.hash, and
\* the message of the rejection names the constraint that was violated.
HashRejectsInvalidInput ==
  probe.fn = "hashPassword" /\ probe.ret # Pending =>
    LET x == probe.arg
    IN /\ x \in {Undefined, Null, NotAString, Str(<<>>)} =>
            RejectedUnhashed("Password must be a non-empty string")
       /\ x.t = "string" /\ x # Str(<<>>) /\ Len(x.v) < 8 =>
            RejectedUnhashed("Password must be at least 8 characters long")
       /\ x.t = "string" /\ Len(x.v) > 72 =>
            RejectedUnhashed("Password must be 72 characters or less")
\* a plaintext of 73 characters has been rejected
HashRejectsInvalidInputWitness ==
  /\ probe.fn = "hashPassword" /\ probe.ret # Pending
  /\ probe.arg.t = "string" /\ Len(probe.arg.v) = 73
  /\ ~probe.ret.ok /\ probe.calls = <<>>

\* C12: for every string of 8 to 72 characters, both bounds included and whatever
\* its characters, hashPassword invokes bcrypt.hash exactly once, with the
\* plaintext and 12, and resolves to the digest of that call when it has one.
HashInvokesOnce ==
  probe.fn = "hashPassword" /\ probe.ret # Pending
    /\ probe.arg.t = "string" /\ Len(probe.arg.v) >= 8 /\ Len(probe.arg.v) <= 72 =>
      /\ Len(probe.calls) = 1
      /\ probe.calls[1].op = "hash"
      /\ probe.calls[1].arg = <<probe.arg, 12>>
      /\ probe.calls[1].ret.ok => probe.ret = probe.calls[1].ret
\* a plaintext of 72 characters, accented letters among them, has been hashed
HashInvokesOnceWitness ==
  /\ probe.fn = "hashPassword" /\ probe.ret # Pending /\ probe.ret.ok
  /\ probe.arg.t = "string" /\ Len(probe.arg.v) = 72
  /\ \E i \in DOMAIN probe.arg.v : probe.arg.v[i] = "U+00E9"

\* what tells a caller the kind of an error of hashPassword: every error is a
\* plain Error, so only the label that starts its message
ErrorLabel(e) == Head(e.msg)
HashingFailureLabel == "Password hashing failed: "

\* C13: hashPassword reports invalid input as a validation error and a failure
\* of bcrypt.hash as a hashing error, two kinds of error a caller can tell
\* apart; the message of the hashing error includes the message of its cause.
ValidationAndHashingErrorsDiffer ==
  probe.fn = "hashPassword" /\ probe.ret # Pending /\ ~probe.ret.ok =>
    /\ probe.calls = <<>> => ErrorLabel(probe.ret) # HashingFailureLabel
    /\ probe.calls # <<>> =>
         /\ ErrorLabel(probe.ret) = HashingFailureLabel
         /\ \A i \in DOMAIN probe.calls[1].ret.msg :
              Mentions(probe.ret.msg, probe.calls[1].ret.msg[i])

\* the value is missing, not a string, or the empty string
Unusable(x) == x \in {Undefined, Null, NotAString, Str(<<>>)}

\* C14: every failure of verifyPassword, whether the plaintext or the digest is
\* empty or not a string or bcrypt.compare raised an error, is the one error
\* 'Password verification failed'; with an empty or missing plaintext or digest
\* bcrypt.compare is not invoked.
VerifyFailsGenerically ==
  probe.fn = "verifyPassword" /\ probe.ret # Pending =>
    /\ ~probe.ret.ok => probe.ret.msg = <<"Password verification failed">>
    /\ Unusable(probe.arg.password) \/ Unusable(probe.arg.hashedPassword) =>
         ~probe.ret.ok /\ probe.calls = <<>>
    /\ probe.calls # <<>> /\ ~probe.calls[1].ret.ok => ~probe.ret.ok
\* the call of two usable arguments failed on an error of bcrypt.compare
VerifyFailsGenericallyWitness ==
  /\ probe.fn = "verifyPassword" /\ probe.ret # Pending /\ ~probe.ret.ok
  /\ ~Unusable(probe.arg.password) /\ ~Unusable(probe.arg.hashedPassword)
  /\ probe.calls # <<>> /\ ~probe.calls[1].ret.ok

\* C15: for a non-empty string plaintext and a non-empty string digest, whatever
\* the plaintext's length, verifyPassword invokes bcrypt.compare once with
\* exactly the two and returns the boolean the comparison resolved to.
VerifyReturnsComparison ==
  probe.fn = "verifyPassword" /\ probe.ret # Pending
    /\ ~Unusable(probe.arg.password) /\ ~Unusable(probe.arg.hashedPassword) =>
      /\ Len(probe.calls) = 1
      /\ probe.calls[1].op = "compare"
      /\ probe.calls[1].arg = <<probe.arg.password, probe.arg.hashedPassword>>
      /\ probe.calls[1].ret.ok =>
           probe.ret = probe.calls[1].ret /\ probe.ret.val \in BOOLEAN
\* a plaintext of 73 characters has been compared with a digest of another
VerifyReturnsComparisonWitness ==
  /\ probe.fn = "verifyPassword" /\ probe.ret = Ok(FALSE)
  /\ Len(probe.arg.password.v) = 73 /\ IsBcrypt(probe.arg.hashedPassword)

\* the string has 8 to 72 characters
InBounds(x) == x.t = "string" /\ Len(x.v) >= 8 /\ Len(x.v) <= 72

\* C16: for plaintexts p and p2 of 8 to 72 characters, verifyPassword of p and
\* the digest hashPassword resolved to for p2 is true if p = p2 and false if
\* they differ, whichever salt the digest has.
HashVerifyRoundTrip ==
  probe.fn = "verifyPassword" /\ probe.of # Undefined
    /\ InBounds(probe.arg.password) /\ InBounds(probe.of)
    /\ probe.ret # Pending /\ probe.ret.ok =>
      (probe.ret.val <=> probe.arg.password = probe.of)

\* the six rules of the validator, each with its message
StrengthRules == {"min", "max", "upper", "lower", "digit", "special"}
RuleMessage(rule) ==
  CASE rule = "min" -> "Password must be at least 8 characters long"
    [] rule = "max" -> "Password must be 72 characters or less"
    [] rule = "upper" -> "Password must contain at least one uppercase letter"
    [] rule = "lower" -> "Password must contain at least one lowercase letter"
    [] rule = "digit" -> "Password must contain at least one number"
    [] rule = "special" -> "Password must contain at least one special character"
\* the string s violates the rule
Violates(s, rule) ==
  CASE rule = "min" -> Len(s) < 8
    [] rule = "max" -> Len(s) > 72
    [] rule = "upper" -> \A i \in DOMAIN s : s[i] # "A"
    [] rule = "lower" -> \A i \in DOMAIN s : s[i] \notin {"p", "q"}
    [] rule = "digit" -> \A i \in DOMAIN s : s[i] # "1"
    [] rule = "special" -> \A i \in DOMAIN s : s[i] # "!"

\* C17: validatePasswordStrength checks its six rules independently and returns
\* one error per violated rule, all of them together, so the number of errors is
\* the number of violated rules; isValid is true iff there is no error.
StrengthReportsEveryRule ==
  probe.fn = "validatePasswordStrength" /\ probe.ret # Pending =>
    LET errors == probe.ret.val.errors
        violated == {rule \in StrengthRules : Violates(probe.arg.v, rule)}
    IN /\ probe.ret.ok
       /\ \A rule \in StrengthRules :
            rule \in violated <=> Mentions(errors, RuleMessage(rule))
       /\ Len(errors) = Cardinality(violated)
       /\ probe.ret.val.isValid <=> errors = <<>>
\* a string of 7 lowercase letters has drawn four errors
StrengthReportsEveryRuleWitness ==
  /\ probe.fn = "validatePasswordStrength" /\ probe.ret # Pending
  /\ Len(probe.arg.v) = 7
  /\ Len(probe.ret.val.errors) = 4 /\ ~probe.ret.val.isValid

\* ------------------------------------------------------ types/auth called
\* the identity is an object, neither null nor undefined
Exists(u) == u # Null /\ u # Undefined

\* C18: hasRole(identity, role) is true iff the identity exists and its role is
\* the given role; for a null or undefined identity it returns false and does
\* not throw, for each of the roles TENANT, LANDLORD and ADMIN.
HasRoleIffRoleEquals ==
  probe.fn = "hasRole" /\ probe.ret # Pending =>
    /\ probe.ret.ok
    /\ probe.ret.val <=> (Exists(probe.arg.user) /\ probe.arg.user.role = probe.arg.role)
\* hasRole has returned false for null asked as ADMIN
HasRoleIffRoleEqualsWitness ==
  /\ probe.fn = "hasRole" /\ probe.ret = Ok(FALSE)
  /\ probe.arg.user = Null /\ probe.arg.role = "ADMIN"

\* C19: isAdmin(x) is hasRole(x, ADMIN) and isLandlordOrAdmin(x) is hasRole(x,
\* LANDLORD) or hasRole(x, ADMIN) on every identity, null and undefined too;
\* so who satisfies isAdmin satisfies isLandlordOrAdmin, and no TENANT
\* satisfies either.
DerivedPredicatesAgree ==
  /\ probe.fn = "isAdmin" /\ probe.ret # Pending =>
       /\ probe.ret = hasRole(probe.arg, "ADMIN")
       /\ probe.ret = Ok(TRUE) => isLandlordOrAdmin(probe.arg) = Ok(TRUE)
  /\ probe.fn = "isLandlordOrAdmin" /\ probe.ret # Pending =>
       /\ probe.ret.ok
       /\ probe.ret.val <=>
            (hasRole(probe.arg, "LANDLORD").val \/ hasRole(probe.arg, "ADMIN").val)
  /\ probe.fn \in {"isAdmin", "isLandlordOrAdmin"} /\ probe.ret # Pending
       /\ Exists(probe.arg) /\ probe.arg.role = "TENANT" => probe.ret = Ok(FALSE)
\* isLandlordOrAdmin has returned true for an administrator
DerivedPredicatesAgreeWitness ==
  /\ probe.fn = "isLandlordOrAdmin" /\ probe.ret = Ok(TRUE)
  /\ probe.arg.role = "ADMIN"

\* C20: isAuthenticated(session) is true iff the session is present and its
\* user is present: false for a null session, an undefined session and a
\* session whose user is absent, true for a session that carries an identity.
AuthenticatedIffUserPresent ==
  probe.fn = "isAuthenticated" /\ probe.ret # Pending =>
    /\ probe.ret.ok
    /\ probe.ret.val <=> (Exists(probe.arg) /\ Exists(probe.arg.user))

\* ------------------------------------------------------ attempts in a race
\* everything the attempt of p holds
AttemptLocals(p) ==
  <<pc[p], credentials[p], user[p], isPasswordValid[p], newHashedPassword[p],
    result[p], log[p], trace[p], snapshot[p]>>
\* what the attempt of p resolves with, given only its credentials, the store as
\* it read it and what its own collaborator calls returned
SoloResult(p) ==
  LET row == findUnique(snapshot[p], LookupKey(credentials[p]))
  IN IF Returned(p, "findUnique", row) /\ row # Null /\ Returned(p, "verifyPassword", TRUE)
       THEN [id |-> row.id, email |-> row.email, name |-> row.name, role |-> row.role,
             emailVerified |-> row.emailVerified, image |-> row.image]
       ELSE Null
\* the one store write of the attempt of p, if any, is of its own user and of the
\* digest its own hashPassword call resolved to for its own plaintext
SoloWrite(p) ==
  Called(p, "update") =>
    /\ Cardinality(Calls(p, "update")) = 1
    /\ Called(p, "hashPassword") /\ Outcome(p, "hashPassword").ok
    /\ Argument(p, "hashPassword") = credentials[p].password
    /\ Argument(p, "update") =
         <<findUnique(snapshot[p], LookupKey(credentials[p])).id,
           Outcome(p, "hashPassword").val>>

\* C21: attempts are independent: a step of one attempt changes nothing another
\* attempt holds and no row of the store but that of its own user, and what an
\* attempt returns and writes is determined by its credentials, the rows it read
\* and the outcomes of its own calls, however the attempts interleave.
AttemptsIndependent ==
  /\ [](\A p \in Procs : pc[p] = "done" => result[p] = SoloResult(p) /\ SoloWrite(p))
  /\ [][\A q \in Procs : pc'[q] # pc[q] =>
          /\ \A p \in Procs \ {q} : AttemptLocals(p)' = AttemptLocals(p)
          /\ \A id \in Users : store'[id] # store[id] =>
                pc[q] = "update" /\ id = user[q].id]_vars
\* two attempts, one for each user, have both persisted a rehash and are settled
AttemptsIndependentWitness ==
  /\ \A p \in Procs : pc[p] = "done" /\ Returned(p, "update", TRUE) /\ IsIdentity(result[p])
  /\ user["p1"].id # user["p2"].id

\* d is a complete digest as hashPassword resolves to
CompleteDigest(d) == \E x \in {Str(PwA), Str(PwB)} : Ok(d) \in hashPassword(x)
\* the attempt of p has its new digest from a hashPassword call that resolved
HashResolved(p) ==
  /\ Called(p, "hashPassword") /\ Outcome(p, "hashPassword").ok
  /\ Outcome(p, "hashPassword").val = newHashedPassword[p]

\* C22: in every reachable state, with logins interleaving and attempts abandoned
\* at any await, the stored digest of each user is one that was stored at the
\* start or a complete digest hashPassword resolved to; a login writes the store
\* only after its hashPassword call resolved, one row's password in one update.
NoTornSecret ==
  /\ [](\A id \in Users :
          store[id].password \in RaceStoredPasswords \/ CompleteDigest(store[id].password))
  /\ [][\A id \in Users : store'[id] # store[id] =>
          /\ store'[id] = [store[id] EXCEPT !.password = store'[id].password]
          /\ \A other \in Users \ {id} : store'[other] = store[other]
          /\ \/ probe' # probe /\ store'[id].password = probe'.ret.val
             \/ \E p \in Procs :
                  /\ pc[p] = "update" /\ user[p].id = id /\ HashResolved(p)
                  /\ store'[id].password = newHashedPassword[p]]_vars
\* an attempt was abandoned during its update, which the store applied, while
\* another was abandoned during hashing
NoTornSecretWitness ==
  /\ pc["p1"] = "abandoned" /\ HashResolved("p1")
  /\ store[user["p1"].id].password = newHashedPassword["p1"]
  /\ pc["p2"] = "abandoned" /\ Called("p2", "verifyPassword") /\ ~Called("p2", "hashPassword")
  /\ user["p2"].id = user["p1"].id

\* the update of the attempt of p resolves in this step
UpdateResolves(p) ==
  /\ pc[p] = "update" /\ pc'[p] = "done"
  /\ trace'[p][Len(trace'[p])].ret.ok

\* C23: there is no mutual exclusion between operations on one user and the last
\* write wins: the update of a rehash that resolves leaves its digest in the
\* row whatever the row held, and so does a password change; when the change is
\* persisted between a login's lookup and its rehash, a digest of the login's
\* old plaintext is what stays.
LastWriteWins ==
  /\ [][\A p \in Procs : UpdateResolves(p) =>
          store'[user[p].id].password = newHashedPassword[p]]_vars
  /\ [][probe' # probe => store'[probe'.arg.id].password = probe'.ret.val]_vars
  /\ [](\A p \in Procs :
          pc[p] = "done" /\ Returned(p, "update", TRUE)
            /\ store[user[p].id].password = newHashedPassword[p] =>
              IsCurrentDigestOf(store[user[p].id].password, credentials[p].password))
\* the login read the old digest, the password was changed, then the rehash was
\* persisted: the row holds a digest of the old plaintext, not of the new one
LastWriteWinsWitness ==
  /\ pc["p1"] = "done" /\ Returned("p1", "update", TRUE) /\ pc["p2"] = "idle"
  /\ user["p1"].password = Digest(10, 0, PwA)
  /\ probe.fn = "passwordChange" /\ probe.arg.id = user["p1"].id
  /\ store[user["p1"].id].password = newHashedPassword["p1"]
  /\ ~IsCurrentDigestOf(store[user["p1"].id].password, probe.arg.password)

\* ------------------------------------------------------------- termination
Collaborators == {"findUnique", "verifyPassword", "hashPassword", "update"}

\* C24: provided each collaborator call eventually returns or fails, an attempt
\* that is waiting for one eventually settles, with one outcome that is null or
\* an identity and does not change afterwards, having made at most one lookup,
\* one verification, one hashing and one update.
AttemptTerminates ==
  /\ \A p \in Callers : pc[p] \in Suspended ~> pc[p] = "done"
  /\ [](\A p \in Callers : \A op \in Collaborators : Cardinality(Calls(p, op)) <= 1)
  /\ [](\A p \in Callers :
          /\ pc[p] = "done" => result[p] = Null \/ IsIdentity(result[p])
          /\ pc[p] \in Suspended => result[p] = Pending)
  /\ [][\A p \in Callers : pc[p] = "done" =>
          result'[p] = result[p] \/ pc'[p] = "idle"]_vars
\* an attempt has settled after all four calls, the update having failed
AttemptTerminatesWitness ==
  /\ pc["p1"] = "done" /\ IsIdentity(result["p1"])
  /\ \A op \in Collaborators : Cardinality(Calls("p1", op)) = 1
  /\ Threw("p1", "update")

\* the characters a generated password may hold
GeneratedChars ==
  {"A", "B", "C", "D", "E", "F", "G", "H", "I", "J", "K", "L", "M",
   "N", "O", "P", "Q", "R", "S", "T", "U", "V", "W", "X", "Y", "Z",
   "a", "b", "c", "d", "e", "f", "g", "h", "i", "j", "k", "l", "m",
   "n", "o", "p", "q", "r", "s", "t", "u", "v", "w", "x", "y", "z",
   "0", "1", "2", "3", "4", "5", "6", "7", "8", "9", "!", "@", "#", "$", "%", "^", "&", "*"}

\* C25: generateSecurePassword(n) returns a string of exactly n characters for
\* every n >= 0, the empty string for 0 and 16 characters when n is omitted, each
\* character one of the 70 of A-Z, a-z, 0-9 and !@#$%^&*.
GeneratedPasswordShape ==
  /\ Cardinality(GeneratedChars) = 70
  /\ probe.fn = "generateSecurePassword" /\ probe.ret # Pending =>
       /\ probe.ret.ok /\ probe.ret.val.t = "string"
       /\ Len(probe.ret.val.v) = (IF probe.arg = Undefined THEN 16 ELSE probe.arg.v)
       /\ \A i \in DOMAIN probe.ret.val.v : probe.ret.val.v[i] \in GeneratedChars
\* a password of the default length has been generated from the greatest and
\* the least random values
GeneratedPasswordShapeWitness ==
  /\ probe.fn = "generateSecurePassword" /\ probe.arg = Undefined /\ probe.ret # Pending
  /\ Len(probe.ret.val.v) = 16
  /\ \E i, j \in DOMAIN probe.ret.val.v : probe.ret.val.v[i] = "*" /\ probe.ret.val.v[j] = "A"

\* ------------------------------------------------------- callbacks called
\* C26: the session callback copies id and role of the database user onto
\* session.user exactly when session.user and user are both present and leaves
\* the session as it was otherwise; it returns the session object it was given
\* and alters no other field, so the role on session.user is the user's role.
SessionCopiesIdAndRole ==
  probe.fn = "session" /\ probe.ret # Pending =>
    LET a == probe.arg
        before == a.heap
        after == probe.ret.val.heap
        both == before.session.user \notin {Null, Undefined} /\ a.user \notin {Null, Undefined}
    IN /\ probe.ret.ok
       /\ probe.ret.val.value = a.session
       /\ after.session = before.session
       /\ both =>
            /\ after.sessionUser.id = JsString(a.user.id)
            /\ after.sessionUser.role = JsString(a.user.role)
            /\ \A f \in {"name", "email", "image"} :
                 after.sessionUser[f] = before.sessionUser[f]
       /\ ~both => after = before
\* a landlord's id and role have replaced those an earlier callback had set
SessionCopiesIdAndRoleWitness ==
  /\ probe.fn = "session" /\ probe.ret # Pending
  /\ probe.arg.heap.sessionUser.role = JsString("ADMIN")
  /\ probe.arg.heap.session.user = Ref("sessionUser")
  /\ probe.ret.val.heap.sessionUser.role = JsString("LANDLORD")
  /\ probe.ret.val.heap.sessionUser.id = JsString("u1")

\* the call of signIn has returned
SignInReturned ==
  probe.fn = "signIn" /\ probe.ret # Pending /\ probe.ret # Awaiting("findUnique")

ClassErrors ==
  {"Password must contain at least one uppercase letter",
   "Password must contain at least one lowercase letter",
   "Password must contain at least one number",
   "Password must contain at least one special character"}
\* hashPassword's own checks let the password through to bcrypt.hash
PassesHashValidation(password) == \A r \in hashPasswordRun(password) : r.calls # <<>>

\* C28: a password that validatePasswordStrength reports valid passes the input
\* validation of hashPassword, which can then fail only in bcrypt.hash; and
\* hashPassword lets through to bcrypt.hash every password of 8 to 72
\* characters, those the validator rejects for a missing character class too.
ValidatorStricterThanHash ==
  /\ (probe.fn = "validatePasswordStrength" /\ probe.ret # Pending /\ probe.ret.val.isValid)
       => PassesHashValidation(probe.arg)
  /\ (probe.fn = "hashPassword" /\ probe.ret # Pending /\ IsString(probe.arg)
        /\ Len(probe.arg.v) \in MinPasswordLength..MaxPasswordLength)
       => /\ Len(probe.calls) = 1 /\ probe.calls[1].op = "hash"
          /\ ~probe.ret.ok => ~probe.calls[1].ret.ok
\* a password without digit and special character has been hashed
ValidatorStricterThanHashWitness ==
  /\ probe.fn = "hashPassword" /\ probe.ret # Pending /\ probe.ret.ok
  /\ IsString(probe.arg)
  /\ LET v == validatePasswordStrength(probe.arg).val
     IN /\ ~v.isValid
        /\ \A i \in DOMAIN v.errors : v.errors[i] \in ClassErrors
        /\ Len(v.errors) = 2

\* the digest was written by a login: digests stored before any login carry salt 0
IsRehashed(d) == IsBcrypt(d) /\ d.salt \in Salts

\* C29: with logins of one caller after another as the only writer, the work
\* factor of a stored digest never decreases; every digest a login writes has
\* work factor 12 and shouldRehashPassword false; and once a login has written
\* a row's digest no later login issues an update of that row.
RehashConverges ==
  /\ [][\A id \in Users :
          LET old == store[id].password
              new == store'[id].password
          IN new # old =>
               /\ IsBcrypt(old) /\ IsBcrypt(new)
               /\ old.rounds <= new.rounds
               /\ new.rounds = 12 /\ shouldRehashPassword(new) = Ok(FALSE)
               /\ ~IsRehashed(old)
               /\ store'[id] = [store[id] EXCEPT !.password = new]]_vars
  /\ [](\A p \in Callers :
          pc[p] \in {"hashPassword", "update"} => ~IsRehashed(store[user[p].id].password))
\* a login has succeeded on a digest that an earlier login wrote, without a call
\* of hashPassword or update
RehashConvergesWitness ==
  \E p \in Callers :
    /\ pc[p] = "done" /\ IsIdentity(result[p])
    /\ IsRehashed(user[p].password) /\ store[user[p].id].password = user[p].password
    /\ Returned(p, "verifyPassword", TRUE)
    /\ ~Called(p, "hashPassword") /\ ~Called(p, "update")

\* the login of p stored a new digest and the login of q, for the same e-mail,
\* read that digest and none of its collaborators threw
LoginAfterRehash(p, q) ==
  /\ p # q /\ pc[p] = "done" /\ pc[q] = "done"
  /\ Called(p, "update") /\ Outcome(p, "update").ok
  /\ credentials[q].email = credentials[p].email
  /\ user[q] # Null /\ user[q].password = newHashedPassword[p]
  /\ \A i \in DOMAIN trace[q] : trace[q][i].ret.ok

\* C30: after a login has stored a rehash, a later attempt with the same e-mail
\* and the same plaintext returns the same identity as that login did, and one
\* with any other plaintext returns null.
SameLoginAfterRehash ==
  \A p, q \in Procs :
    LoginAfterRehash(p, q) =>
      IF credentials[q].password = credentials[p].password
        THEN IsIdentity(result[q]) /\ result[q] = result[p]
        ELSE result[q] = Null
====
